---- MODULE Spec2Model ----
(***************************************************************************)
(* okta-jwt-verifier: the Verifier of src/src/lib.rs as a state machine.   *)
(*                                                                         *)
(* State: one Verifier slot (issuer, cid, leeway, aud, keys), the JWKS     *)
(* document the issuer currently publishes, the GET requests sent so far,  *)
(* the token a caller holds, the result of the last call, and the verify   *)
(* calls of concurrent callers that are under way.                         *)
(* Operations: new, new_with_config, client_id, audience, add_audience,    *)
(* leeway, verify, and the issuer rotating its keys.                       *)
(*                                                                         *)
(* The jsonwebtoken calls (decode_header, decode, Validation::new) are     *)
(* modelled at their call sites: a signature is valid for a key when the   *)
(* token was signed by that key's modulus under an algorithm the           *)
(* Validation allows; claims are validated in the library's order          *)
(* (exp, iss, aud), and a claim the token does not carry is not validated  *)
(* (only exp is in the library's required_spec_claims).                    *)
(***************************************************************************)
EXTENDS Integers, Sequences, FiniteSets, TLC

VARIABLES verifier, published, fetches, nconstruct, token, outcome, calls

vars == <<verifier, published, fetches, nconstruct, token, outcome, calls>>

(***************************************************************************)
(* Bounds of the model.                                                    *)
(***************************************************************************)
\* constructor calls per behaviour
MaxConstruct == 1
\* a held token differs from the tests' token in at most this many fields
MaxDeviations == 2
\* the clock reading (seconds) during the behaviour
Now == 100000
\* keys in a JWKS document of the key-store specification
MaxKeys == 3

(***************************************************************************)
(* Program constants.                                                      *)
(***************************************************************************)
DEFAULT_ENDPOINT == "/v1/keys"
\* validation.leeway = 120 when no override is configured
DefaultLeeway == 120
\* the leeway Validation::new starts with (jsonwebtoken 8)
LibraryLeeway == 60
KEY_ID == "12345"

(***************************************************************************)
(* Values.                                                                 *)
(***************************************************************************)
None == "None"

Issuers == {"https://okta.test/oauth2/default", "https://okta.test/oauth2/default/"}
CustomEndpoint == "/oauth2/v1/keys"
\* the Config values a caller passes: keys_endpoint = None, Config::default(),
\* and a custom endpoint
Configs == {[keys_endpoint |-> None],
            [keys_endpoint |-> DEFAULT_ENDPOINT],
            [keys_endpoint |-> CustomEndpoint]}

Kids == {KEY_ID, "67890"}
Moduli == {"n1", "n2"}
AudValues == {"api://default", "api://other"}
\* the sets a caller passes to audience
AudienceSets == {{}, {"api://default"}, {"api://other"}}
CidValues == {"cidA", "cidB"}
\* a cid claim whose JSON value is not a string
NonStringCid == "42 (number)"
LeewayValues == {0, 30}
\* seconds by which a token's exp lies before Now (negative: in the future);
\* -7200 is the tests' Duration::from_hours(2)
ExpiredBy == {-7200, 0, 61, 121}
\* around the leeway values a caller configures
ExpiredByNearLeeway == {30, 31}
\* how a token is signed: the header's alg and the key that made the signature
Signings == {[alg |-> "RS256", signer |-> "n1"], [alg |-> "RS256", signer |-> "n2"],
             [alg |-> "RS384", signer |-> "n1"]}

Jwk(kid, alg, n) == [kty |-> "RSA", alg |-> alg, kid |-> kid, uses |-> "sig",
                     e |-> "AQAB", n |-> n]

\* The JWKS documents the issuer serves over time: first the tests' single
\* key; after a rotation a document that adds a key under a new kid and
\* lists kid 12345 twice, the second time declaring RS384.
Responses == << << Jwk(KEY_ID, "RS256", "n1") >>,
                << Jwk(KEY_ID, "RS256", "n2"),
                   Jwk("67890", "RS256", "n2"),
                   Jwk(KEY_ID, "RS384", "n1") >> >>

RECURSIVE SeqsUpTo(_, _)
\* the sequences over S of length at most n
SeqsUpTo(S, n) ==
    IF n = 0 THEN {<< >>}
    ELSE LET shorter == SeqsUpTo(S, n - 1)
         IN  shorter \cup {Append(q, x) : q \in shorter, x \in S}

\* the well-formed JWKS documents of at most MaxKeys keys: kid values may
\* repeat, with the same or with different key material
JwksDocuments ==
    SeqsUpTo({Jwk(kid, "RS256", n) : kid \in Kids, n \in Moduli}, MaxKeys)

\* the fields of a token: the header's kid, the signing (the header's alg and
\* the key that produced the signature), and the payload
AllTokens == [kid : Kids \cup {None}, sig : Signings,
              iss : Issuers, exp : {Now - d : d \in ExpiredBy},
              aud : AudValues \cup {None},
              cid : CidValues \cup {None, NonStringCid}]

\* the token of tests::can_verify_token, for the first issuer
TestToken == [kid |-> KEY_ID, sig |-> [alg |-> "RS256", signer |-> "n1"],
              iss |-> "https://okta.test/oauth2/default", exp |-> Now + 7200,
              aud |-> None, cid |-> None]

Deviations(t) == Cardinality({f \in DOMAIN t : t[f] # TestToken[f]})

Tokens == {t \in AllTokens : Deviations(t) <= MaxDeviations}

\* the callers that share one Verifier, and the tokens they verify
Callers == {"c1", "c2"}
ConcurrentTokens ==
    {TestToken,
     [TestToken EXCEPT !.kid = "67890"],
     [TestToken EXCEPT !.cid = "cidA"],
     [TestToken EXCEPT !.cid = "cidA", !.exp = Now - 61]}

\* Option<u64> and Option<HashSet<String>> values
NoLeeway == [some |-> FALSE, val |-> 0]
SomeLeeway(n) == [some |-> TRUE, val |-> n]
NoAud == [some |-> FALSE, set |-> {}]
SomeAud(s) == [some |-> TRUE, set |-> s]

EmptyMap == [k \in {} |-> None]

\* the slot when no Verifier value exists
NoVerifier == [issuer |-> None, cid |-> None, leeway |-> NoLeeway,
               aud |-> NoAud, keys |-> EmptyMap]

HasVerifier == verifier.issuer # None

NoClaims == [iss |-> None, exp |-> 0, cid |-> None]
NoHeader == [alg |-> None, kid |-> None]

\* what the last call was and what it returned
\* (for a constructor: its arguments and the URL of its GET; for a setter:
\* the argument passed)
Outcome(op, ok, err, claims, header, issuer, endpoint, url, entry) ==
    [op |-> op, ok |-> ok, err |-> err, claims |-> claims, header |-> header,
     issuer |-> issuer, keys_endpoint |-> endpoint, url |-> url, entry |-> entry]

NoOutcome ==
    Outcome("none", FALSE, None, NoClaims, NoHeader, None, None, None, None)

(***************************************************************************)
(* Key Source: get and remote_fetch.                                       *)
(***************************************************************************)
\* format!("{issuer}{keys_endpoint}")
Url(issuer, keys_endpoint) == issuer \o keys_endpoint

\* (variant: a kid already in the map keeps its first key)
Insert_KeepFirst(inner, key) ==
    [k \in DOMAIN inner \cup {key.kid} |->
        IF k \in DOMAIN inner THEN inner[k] ELSE key]

\* keymap.inner.insert(key.kid.clone(), key)
Insert(inner, key) ==
    [k \in DOMAIN inner \cup {key.kid} |-> IF k = key.kid THEN key ELSE inner[k]]

RECURSIVE InsertAll(_, _)
\* for key in keys { keymap.inner.insert(..) }
InsertAll(inner, keys) ==
    IF keys = << >> THEN inner
    ELSE InsertAll(Insert(inner, Head(keys)), Tail(keys))

\* the Jwks built from a fetched key list
KeyMap(keys) == InsertAll(EmptyMap, keys)

\* what the network and the body parser can make of one GET
FetchOutcomes == {"ok", "transport_error", "bad_body"}

\* (variant: a Config without keys_endpoint yields an empty path)
ConfigEndpoint_NoDefault(config) ==
    IF config.keys_endpoint # None THEN config.keys_endpoint ELSE ""

\* the endpoint new_with_config fetches from
ConfigEndpoint(config) ==
    IF config.keys_endpoint # None THEN config.keys_endpoint ELSE DEFAULT_ENDPOINT

\* the Verifier a constructor returns on a successful fetch
Fresh(issuer, keys) ==
    [issuer |-> issuer, cid |-> None, leeway |-> NoLeeway, aud |-> NoAud,
     keys |-> keys]

(***************************************************************************)
(* Token decoding.                                                         *)
(***************************************************************************)
\* (variant: an unknown kid falls back to the key under KEY_ID)
where_id_Fallback(keys, kid) ==
    IF kid \in DOMAIN keys THEN [some |-> TRUE, key |-> keys[kid]]
    ELSE IF KEY_ID \in DOMAIN keys THEN [some |-> TRUE, key |-> keys[KEY_ID]]
    ELSE [some |-> FALSE, key |-> Jwk(None, None, None)]

\* Jwks::where_id
where_id(keys, kid) ==
    IF kid \in DOMAIN keys THEN [some |-> TRUE, key |-> keys[kid]]
    ELSE [some |-> FALSE, key |-> Jwk(None, None, None)]

\* Verifier::key_id: the header's kid, or the error
key_id(t) == IF t.kid # None THEN [ok |-> TRUE, kid |-> t.kid, err |-> None]
             ELSE [ok |-> FALSE, kid |-> None, err |-> "NoKeyId"]

\* the values jsonwebkey's Algorithm enum deserializes
JsonWebKeyAlgorithms == {"HS256", "RS256", "ES256"}

\* serde_json::to_string(key_jwk)?.parse::<JsonWebKey>()
ParseKey(key_jwk) ==
    IF key_jwk.alg \in JsonWebKeyAlgorithms
    THEN [ok |-> TRUE, err |-> None, key |-> key_jwk]
    ELSE [ok |-> FALSE, err |-> "KeyParse", key |-> key_jwk]

\* Validation::new(Algorithm::RS256)
ValidationNew == [algorithms |-> {"RS256"}, leeway |-> LibraryLeeway,
                  aud |-> NoAud, iss |-> NoAud]

\* the claims a decode pass deserializes: ClientId keeps cid only,
\* DefaultClaims has no aud field
Project(shape, t) ==
    IF shape = "ClientId" THEN [iss |-> None, exp |-> 0, cid |-> t.cid]
    ELSE [iss |-> t.iss, exp |-> t.exp, cid |-> t.cid]

Err(e) == [ok |-> FALSE, err |-> e, claims |-> NoClaims, header |-> NoHeader]
Ok(claims, header) == [ok |-> TRUE, err |-> None, claims |-> claims, header |-> header]

\* exp < now - leeway
Expired(t, leeway) == t.exp < Now - leeway

\* (variant: validation.aud is never consulted)
AudRejected_Never(t, aud) == FALSE

\* the aud check of the library's validation: made only when an audience is
\* set and the token carries an aud claim
AudRejected(t, aud) ==
    /\ aud.some
    /\ t.aud # None
    /\ t.aud \notin aud.set

\* serde: ClientId has cid: String, DefaultClaims has cid: Option<String>
Deserializes(shape, t) ==
    IF shape = "ClientId" THEN t.cid \notin {None, NonStringCid}
    ELSE t.cid # NonStringCid

\* jsonwebtoken::decode::<shape>(token, key, validation)
JwtDecode(t, key, validation, shape) ==
    IF t.sig.alg \notin validation.algorithms THEN Err("InvalidAlgorithm")
    ELSE IF t.sig.signer # key.n THEN Err("InvalidSignature")
    ELSE IF ~Deserializes(shape, t) THEN Err("Json")
    ELSE IF Expired(t, validation.leeway) THEN Err("ExpiredSignature")
    ELSE IF validation.iss.some /\ t.iss \notin validation.iss.set
         THEN Err("InvalidIssuer")
    ELSE IF AudRejected(t, validation.aud) THEN Err("InvalidAudience")
    ELSE Ok(Project(shape, t), [alg |-> t.sig.alg, kid |-> t.kid])

\* (variant: an override of 0 counts as no override)
ConfiguredLeeway_ZeroIsDefault(v) ==
    IF v.leeway.some /\ v.leeway.val > 0 THEN v.leeway.val ELSE DefaultLeeway

\* the leeway of the final validation: the override, else 120
ConfiguredLeeway(v) == IF v.leeway.some THEN v.leeway.val ELSE DefaultLeeway

\* the validation of the final decode pass
FinalValidation(v) ==
    [ValidationNew EXCEPT !.leeway = ConfiguredLeeway(v),
                          !.aud = v.aud,
                          !.iss = SomeAud({v.issuer})]

\* (variant: a token that carries no cid claim is passed on)
ClientIdPass_SkipMissing(v, t, key) ==
    IF v.cid = None \/ t.cid = None THEN Ok(NoClaims, NoHeader)
    ELSE LET cid_tdata == JwtDecode(t, key, ValidationNew, "ClientId")
         IN  IF ~cid_tdata.ok THEN cid_tdata
             ELSE IF cid_tdata.claims.cid # v.cid THEN Err("ClientIdMismatch")
             ELSE cid_tdata

\* the cid workaround: a first decode pass under Validation::new, then the
\* comparison with the configured client id
ClientIdPass(v, t, key) ==
    IF v.cid = None THEN Ok(NoClaims, NoHeader)
    ELSE LET cid_tdata == JwtDecode(t, key, ValidationNew, "ClientId")
         IN  IF ~cid_tdata.ok THEN cid_tdata
             ELSE IF cid_tdata.claims.cid # v.cid THEN Err("ClientIdMismatch")
             ELSE cid_tdata

\* Verifier::decode
Decode(v, t, key_jwk) ==
    LET key == ParseKey(key_jwk)
        first == ClientIdPass(v, t, key.key)
    IN  IF ~key.ok THEN Err(key.err)
        ELSE IF ~first.ok THEN first
        ELSE JwtDecode(t, key.key, FinalValidation(v), "DefaultClaims")

\* Verifier::verify
VerifyResult(v, t) ==
    LET k == key_id(t)
        jwk == where_id(v.keys, k.kid)
    IN  IF ~k.ok THEN Err(k.err)
        ELSE IF ~jwk.some THEN Err("NoMatchingKey")
        ELSE Decode(v, t, jwk.key)

(***************************************************************************)
(* Configuration setters.                                                  *)
(***************************************************************************)
\* (variant: a Verifier borrowed by a verify call can still be moved)
Quiescent_Always == TRUE

\* the constructors return, and the setters take and return, the Verifier by
\* value (mut self), which no borrow of a verify(&self) call can overlap
Quiescent == \A c \in Callers : calls[c].pc = "idle"

\* (variant: client_id starts from a Verifier without a leeway override)
client_id_ResetsLeeway(v, cid) == [v EXCEPT !.cid = cid, !.leeway = NoLeeway]

\* self.cid = Some(cid.to_string()); self
client_id(v, cid) == [v EXCEPT !.cid = cid]

\* self.aud = Some(audience); self
audience(v, s) == [v EXCEPT !.aud = SomeAud(s)]

\* self.leeway = Some(leeway); self
leeway(v, secs) == [v EXCEPT !.leeway = SomeLeeway(secs)]

\* the aud field after add_audience: the entry is inserted into a clone that
\* is dropped when an audience set already exists
AddAudienceField(aud, entry) ==
    IF aud.some THEN aud ELSE SomeAud({entry})

(***************************************************************************)
(* The state machine.                                                      *)
(***************************************************************************)
\* the frame of a verify call: where it stands, its argument, its locals
\* (kid, key_jwk), what it returned, and whether another call was under way
\* during it
Call(pc, t, kid, key_jwk, result, overlapped) ==
    [pc |-> pc, token |-> t, kid |-> kid, key_jwk |-> key_jwk,
     result |-> result, overlapped |-> overlapped]

NoCall == Call("idle", [TestToken EXCEPT !.kid = None], None,
               Jwk(None, None, None), Err(None), FALSE)

Init ==
    /\ verifier = NoVerifier
    /\ published = Responses[1]
    /\ fetches = 0
    /\ nconstruct = 0
    /\ token \in Tokens
    /\ outcome = NoOutcome
    /\ calls = [c \in Callers |-> NoCall]

\* (variant: a failed fetch yields a Verifier with an empty key store)
Construct_EmptyOnFailure(op, issuer, cfgEndpoint, endpoint, fetched) ==
    /\ nconstruct < MaxConstruct
    /\ Quiescent
    /\ nconstruct' = nconstruct + 1
    /\ fetches' = fetches + 1
    /\ verifier' = Fresh(issuer, IF fetched = "ok"
                                 THEN KeyMap(published)
                                 ELSE EmptyMap)
    /\ outcome' = Outcome(op, TRUE, None, NoClaims, NoHeader, issuer,
                          cfgEndpoint, Url(issuer, endpoint), None)
    /\ UNCHANGED <<published, token, calls>>

\* one run of get(issuer, endpoint) inside a constructor named op
Construct(op, issuer, cfgEndpoint, endpoint, fetched) ==
    /\ nconstruct < MaxConstruct
    /\ Quiescent
    /\ nconstruct' = nconstruct + 1
    /\ fetches' = fetches + 1
    /\ IF fetched = "ok"
       THEN /\ verifier' = Fresh(issuer, KeyMap(published))
            /\ outcome' = Outcome(op, TRUE, None, NoClaims, NoHeader, issuer,
                                  cfgEndpoint, Url(issuer, endpoint), None)
       ELSE /\ verifier' = NoVerifier
            /\ outcome' = Outcome(op, FALSE, fetched, NoClaims, NoHeader, issuer,
                                  cfgEndpoint, Url(issuer, endpoint), None)
    /\ UNCHANGED <<published, token, calls>>

\* Verifier::new(issuer)
New ==
    \E issuer \in Issuers, fetched \in FetchOutcomes :
        Construct("new", issuer, None, DEFAULT_ENDPOINT, fetched)

\* Verifier::new_with_config(issuer, config)
NewWithConfig ==
    \E issuer \in Issuers, config \in Configs, fetched \in FetchOutcomes :
        Construct("new_with_config", issuer, config.keys_endpoint,
                  ConfigEndpoint(config), fetched)

Setter(op, v, entry) ==
    /\ HasVerifier
    /\ Quiescent
    /\ verifier' = v
    /\ outcome' = Outcome(op, TRUE, None, NoClaims, NoHeader, None, None, None,
                          entry)
    /\ UNCHANGED <<published, fetches, nconstruct, token, calls>>

\* Verifier::client_id(cid)
ClientId ==
    \E cid \in CidValues : Setter("client_id", client_id(verifier, cid), cid)

\* Verifier::audience(set)
Audience ==
    \E s \in AudienceSets :
        Setter("audience", audience(verifier, s), s)

\* Verifier::add_audience(entry)
AddAudience ==
    \E entry \in AudValues :
        Setter("add_audience",
               [verifier EXCEPT !.aud = AddAudienceField(verifier.aud, entry)],
               entry)

\* Verifier::leeway(seconds)
Leeway ==
    \E secs \in LeewayValues :
        Setter("leeway", leeway(verifier, secs), secs)

\* (variant: verify fetches the issuer's keys again when the kid is unknown)
Verify_Refetch ==
    /\ HasVerifier
    /\ LET stale == token.kid # None /\ token.kid \notin DOMAIN verifier.keys
           v == IF stale
                THEN [verifier EXCEPT !.keys = KeyMap(published)]
                ELSE verifier
           r == VerifyResult(v, token)
       IN  /\ verifier' = v
           /\ fetches' = IF stale THEN fetches + 1 ELSE fetches
           /\ outcome' = Outcome("verify", r.ok, r.err, r.claims, r.header,
                                 None, None, None, None)
    /\ UNCHANGED <<published, nconstruct, token, calls>>

\* Verifier::verify(token) on the held token
Verify ==
    /\ HasVerifier
    /\ LET r == VerifyResult(verifier, token)
       IN  outcome' = Outcome("verify", r.ok, r.err, r.claims, r.header,
                              None, None, None, None)
    /\ UNCHANGED <<verifier, published, fetches, nconstruct, token, calls>>

\* the issuer starts serving its next JWKS document
Rotate ==
    /\ \E i \in 1..(Len(Responses) - 1) :
          /\ published = Responses[i]
          /\ published' = Responses[i + 1]
    /\ UNCHANGED <<verifier, fetches, nconstruct, token, outcome, calls>>

Next ==
    \/ New
    \/ NewWithConfig
    \/ ClientId
    \/ Audience
    \/ AddAudience
    \/ Leeway
    \/ Verify
    \/ Rotate

Spec == Init /\ [][Next]_vars

(***************************************************************************)
(* Configuration and expiry: the same operations, on tokens that differ    *)
(* from the tests' token in exp and cid only.                              *)
(***************************************************************************)
InitConfig ==
    /\ verifier = NoVerifier
    /\ published = Responses[1]
    /\ fetches = 0
    /\ nconstruct = 0
    /\ token \in {[TestToken EXCEPT !.exp = Now - d, !.cid = cid] :
                     d \in ExpiredBy \cup ExpiredByNearLeeway,
                     cid \in {None, "cidA"}}
    /\ outcome = NoOutcome
    /\ calls = [c \in Callers |-> NoCall]

SpecConfig == InitConfig /\ [][Next]_vars

(***************************************************************************)
(* The key store on its own: the issuer publishes any well-formed JWKS     *)
(* document, a constructor fetches it, and verify looks a kid up in it.    *)
(***************************************************************************)
InitKeys ==
    /\ verifier = NoVerifier
    /\ published \in JwksDocuments
    /\ fetches = 0
    /\ nconstruct = 0
    /\ token \in {[TestToken EXCEPT !.kid = kid] : kid \in Kids \cup {None}}
    /\ outcome = NoOutcome
    /\ calls = [c \in Callers |-> NoCall]

NextKeys ==
    \/ New
    \/ NewWithConfig
    \/ Verify

SpecKeys == InitKeys /\ [][NextKeys]_vars

(***************************************************************************)
(* Concurrent callers: each runs verify(&self, token) on the one Verifier, *)
(* step by step, interleaved with the steps of the others.                 *)
(***************************************************************************)
OtherUnderWay(c) ==
    \E d \in Callers \ {c} : calls[d].pc \notin {"idle", "done"}

\* one step of caller c's verify, taking its frame to next
CallStep(c, next) ==
    /\ calls' = [calls EXCEPT ![c] =
                    [next EXCEPT !.overlapped = @ \/ OtherUnderWay(c)]]
    /\ UNCHANGED <<verifier, published, fetches, nconstruct, token, outcome>>

Return(call, result) == [call EXCEPT !.pc = "done", !.result = result]

\* caller c calls verify(token)
VerifyCall(c) ==
    /\ HasVerifier
    /\ calls[c].pc = "idle"
    /\ \E t \in ConcurrentTokens :
          CallStep(c, [calls[c] EXCEPT !.pc = "key_id", !.token = t])

\* let kid = self.key_id(token)?
VerifyKeyId(c) ==
    /\ calls[c].pc = "key_id"
    /\ LET k == key_id(calls[c].token)
       IN  CallStep(c, IF k.ok
                       THEN [calls[c] EXCEPT !.pc = "where_id", !.kid = k.kid]
                       ELSE Return(calls[c], Err(k.err)))

\* let jwk = self.keys.where_id(&kid); None => bail!
VerifyWhereId(c) ==
    /\ calls[c].pc = "where_id"
    /\ LET jwk == where_id(verifier.keys, calls[c].kid)
       IN  CallStep(c, IF jwk.some
                       THEN [calls[c] EXCEPT !.pc = "decode",
                                             !.key_jwk = jwk.key]
                       ELSE Return(calls[c], Err("NoMatchingKey")))

\* decode: the key conversion and the cid pass
VerifyDecodeCid(c) ==
    /\ calls[c].pc = "decode"
    /\ LET key == ParseKey(calls[c].key_jwk)
           first == ClientIdPass(verifier, calls[c].token, key.key)
       IN  CallStep(c, IF ~key.ok THEN Return(calls[c], Err(key.err))
                       ELSE IF ~first.ok THEN Return(calls[c], first)
                       ELSE [calls[c] EXCEPT !.pc = "final"])

\* decode: the final validation and jsonwebtoken::decode::<T>
VerifyDecodeFinal(c) ==
    /\ calls[c].pc = "final"
    /\ CallStep(c, Return(calls[c],
                           JwtDecode(calls[c].token, calls[c].key_jwk,
                                     FinalValidation(verifier),
                                     "DefaultClaims")))

NextConcurrent ==
    \/ New
    \/ ClientId
    \/ Leeway
    \/ \E c \in Callers :
          \/ VerifyCall(c)
          \/ VerifyKeyId(c)
          \/ VerifyWhereId(c)
          \/ VerifyDecodeCid(c)
          \/ VerifyDecodeFinal(c)

InitConcurrent ==
    /\ verifier = NoVerifier
    /\ published = Responses[1]
    /\ fetches = 0
    /\ nconstruct = 0
    /\ token = TestToken
    /\ outcome = NoOutcome
    /\ calls = [c \in Callers |-> NoCall]

SpecConcurrent == InitConcurrent /\ [][NextConcurrent]_vars

(***************************************************************************)
(* What the claims speak of.                                               *)
(***************************************************************************)
\* the last call was verify(token), on the Verifier as it now is
Verified == outcome.op = "verify"

\* the leeway the documentation promises: the value passed to leeway, else 120
EffectiveLeeway == IF verifier.leeway.some THEN verifier.leeway.val ELSE 120

KidResolves == token.kid \in DOMAIN verifier.keys

\* the token was signed by the key its kid names, under the algorithm the key
\* declares
SignatureValid ==
    /\ KidResolves
    /\ token.sig.signer = verifier.keys[token.kid].n
    /\ token.sig.alg = verifier.keys[token.kid].alg

NotExpired == token.exp >= Now - EffectiveLeeway
IssuerMatches == token.iss = verifier.issuer
AudienceSatisfied == verifier.aud.some => token.aud \in verifier.aud.set
ClientIdSatisfied == verifier.cid # None => token.cid = verifier.cid

\* the payload has the shape of the claims type asked for
PayloadDeserializes == token.cid # NonStringCid

AllChecksPass ==
    /\ PayloadDeserializes
    /\ SignatureValid
    /\ NotExpired
    /\ IssuerMatches
    /\ AudienceSatisfied
    /\ ClientIdSatisfied

\* the payload as DefaultClaims reads it, and the header
SignedClaims == [iss |-> token.iss, exp |-> token.exp, cid |-> token.cid]
SignedHeader == [alg |-> token.sig.alg, kid |-> token.kid]

Rejected == ~outcome.ok /\ outcome.err # None /\ outcome.claims = NoClaims
            /\ outcome.header = NoHeader

ConstructorReturned == outcome.op \in {"new", "new_with_config"}

(***************************************************************************)
(* C1. verify returns claims and header only when every check passed (kid  *)
(* resolves, signature valid, exp not before now minus the effective       *)
(* leeway, iss equal to the issuer, aud in the configured audience set     *)
(* when one is configured, cid equal to the configured client id when one  *)
(* is configured); in every other case it returns an error and no claims.  *)
(***************************************************************************)
C1_ClaimsOnlyWhenAllChecksPass ==
    Verified => IF AllChecksPass THEN TRUE ELSE Rejected

(***************************************************************************)
(* C2. A token signed by a key of the KeyStore, with iss equal to the      *)
(* issuer, exp within the leeway and aud satisfying the configured         *)
(* audience, is accepted, and the returned claims equal the signed         *)
(* payload, however the Verifier was constructed.                          *)
(***************************************************************************)
C2_SignedTokenRoundTrip ==
    (Verified /\ AllChecksPass) =>
        /\ outcome.ok
        /\ outcome.claims = SignedClaims
        /\ outcome.header = SignedHeader

(***************************************************************************)
(* C3. For every configuration, client_id included, a correctly signed     *)
(* token expired by less than the effective leeway verifies and one        *)
(* expired by more than it fails with the token-expired error.             *)
(***************************************************************************)
C3_LeewayGovernsExpiry ==
    (Verified /\ PayloadDeserializes /\ SignatureValid /\ IssuerMatches
       /\ AudienceSatisfied /\ ClientIdSatisfied) =>
        /\ (Now - token.exp < EffectiveLeeway => outcome.ok)
        /\ (Now - token.exp > EffectiveLeeway =>
                ~outcome.ok /\ outcome.err = "ExpiredSignature")

(***************************************************************************)
(* C4. add_audience(a) yields a Verifier whose audience set is the set it  *)
(* had (empty if none) united with a, so the set contains a.               *)
(***************************************************************************)
C4_AddAudienceUnites ==
    [][(outcome'.op = "add_audience" /\ published' = published
          /\ nconstruct' = nconstruct) =>
            verifier'.aud = SomeAud(verifier.aud.set \cup {outcome'.entry})]_vars

(***************************************************************************)
(* C5. With a client_id configured, a token whose cid differs from it      *)
(* fails with the client-id-mismatch error and no claims are returned,     *)
(* even if its signature, iss, exp and aud are valid.                      *)
(***************************************************************************)
C5_ClientIdMismatch ==
    (Verified /\ verifier.cid # None /\ token.cid \in CidValues
       /\ token.cid # verifier.cid
       /\ SignatureValid /\ NotExpired /\ IssuerMatches /\ AudienceSatisfied) =>
        Rejected /\ outcome.err = "ClientIdMismatch"

(***************************************************************************)
(* C6. A token whose header kid is not a key of the KeyStore fails with    *)
(* the no-matching-key error, whatever its signature and claims and        *)
(* whatever the configuration.                                             *)
(***************************************************************************)
C6_UnknownKidNoMatchingKey ==
    (Verified /\ token.kid # None /\ ~KidResolves) =>
        Rejected /\ outcome.err = "NoMatchingKey"

C6_Witness ==
    /\ Verified
    /\ token.kid = "67890"
    /\ ~KidResolves
    /\ verifier.cid # None
    /\ outcome.err = "NoMatchingKey"

(***************************************************************************)
(* C7. The audience check: with an audience set configured, a token whose  *)
(* aud is in the set is not rejected for its audience, and an otherwise    *)
(* valid token whose aud is not in the set fails with the                  *)
(* audience-mismatch error; with no audience configured an otherwise valid *)
(* token is accepted whatever its aud, and without aud.  (Otherwise valid: *)
(* the token without its aud is accepted when no audience is configured.)  *)
(***************************************************************************)
ValidButForAud ==
    VerifyResult([verifier EXCEPT !.aud = NoAud], [token EXCEPT !.aud = None]).ok

C7_AudienceCheck ==
    Verified =>
        /\ (verifier.aud.some /\ token.aud \in verifier.aud.set) =>
               /\ outcome.err # "InvalidAudience"
               /\ ValidButForAud => outcome.ok
        /\ (verifier.aud.some /\ token.aud # None
              /\ token.aud \notin verifier.aud.set /\ ValidButForAud) =>
               Rejected /\ outcome.err = "InvalidAudience"
        /\ (~verifier.aud.some /\ ValidButForAud) => outcome.ok

C7_Witness ==
    /\ Verified
    /\ verifier.aud = SomeAud({"api://default"})
    /\ token.aud = "api://other"
    /\ ValidButForAud
    /\ outcome.err = "InvalidAudience"

(***************************************************************************)
(* C8. The KeyStore is fixed at construction: no call other than a         *)
(* constructor changes it or sends a GET, and a token carrying a kid the   *)
(* issuer published after construction fails with the no-matching-key      *)
(* error on the existing Verifier.                                         *)
(***************************************************************************)
PublishedKids == {published[i].kid : i \in 1..Len(published)}

C8_KeyStoreFixed ==
    /\ [][nconstruct' = nconstruct =>
            verifier'.keys = verifier.keys /\ fetches' = fetches]_vars
    /\ []((Verified /\ token.kid \in PublishedKids /\ ~KidResolves) =>
            outcome.err = "NoMatchingKey")

C8_Witness ==
    /\ Verified
    /\ published = Responses[2]
    /\ token.kid = "67890"
    /\ DOMAIN verifier.keys = {KEY_ID}
    /\ outcome.err = "NoMatchingKey"
    /\ fetches = 1

(***************************************************************************)
(* C9. A constructor call sends exactly one GET, to the issuer string      *)
(* followed by the endpoint path: "/v1/keys" for new, for Config::default  *)
(* and for keys_endpoint = None, config.keys_endpoint otherwise.           *)
(***************************************************************************)
ExpectedPath ==
    IF outcome.op = "new" \/ outcome.keys_endpoint = None THEN "/v1/keys"
    ELSE outcome.keys_endpoint

C9_OneGetToIssuerPlusPath ==
    /\ fetches = nconstruct
    /\ ConstructorReturned => outcome.url = outcome.issuer \o ExpectedPath

C9_Witness ==
    /\ outcome.op = "new_with_config"
    /\ outcome.keys_endpoint = None
    /\ outcome.url = "https://okta.test/oauth2/default//v1/keys"
    /\ fetches = 1

(***************************************************************************)
(* C10. A constructor whose fetch fails (transport failure or a body that  *)
(* is not a JWKS document) returns an error and leaves no Verifier; it     *)
(* does not retry, and a Verifier that exists holds the whole key set of   *)
(* one fetched document.                                                   *)
(***************************************************************************)
C10_FailedFetchNoVerifier ==
    /\ ConstructorReturned =>
          /\ outcome.ok <=> HasVerifier
          /\ ~outcome.ok <=> outcome.err \in {"transport_error", "bad_body"}
    /\ fetches <= nconstruct
    /\ HasVerifier =>
          \E i \in 1..Len(Responses) : verifier.keys = KeyMap(Responses[i])

C10_Witness ==
    /\ outcome.op = "new"
    /\ outcome.err = "bad_body"
    /\ ~outcome.ok
    /\ ~HasVerifier
    /\ fetches = 1

(***************************************************************************)
(* C11. verify checks the signature with the algorithm the resolved key    *)
(* declares: a token signed by that key under the declared algorithm, not  *)
(* expired, with iss, aud and cid as configured, is accepted, and a token  *)
(* whose header algorithm differs from the declared one is rejected.       *)
(***************************************************************************)
C11_KeyAlgorithmGoverns ==
    (Verified /\ KidResolves) =>
        /\ (PayloadDeserializes /\ SignatureValid /\ token.exp >= Now
              /\ IssuerMatches /\ AudienceSatisfied /\ ClientIdSatisfied) =>
               outcome.ok
        /\ token.sig.alg # verifier.keys[token.kid].alg => Rejected

(***************************************************************************)
(* C12. The KeyStore built from a JWKS document returns, for a kid, the    *)
(* last key of the document that has this kid, and absent for a kid that   *)
(* no key of the document has; a document that repeats a kid is fetched    *)
(* without error, and verify finds no matching key exactly for the kids    *)
(* the document lacks.                                                     *)
(***************************************************************************)
IndicesOf(keys, kid) == {i \in 1..Len(keys) : keys[i].kid = kid}

LastIndexOf(keys, kid) ==
    CHOOSE i \in IndicesOf(keys, kid) : \A j \in IndicesOf(keys, kid) : j <= i

C12_LastKeyPerKid ==
    /\ (ConstructorReturned /\ outcome.ok) => HasVerifier
    /\ HasVerifier =>
          \A kid \in Kids \cup {None, "", "1234"} :
              IF IndicesOf(published, kid) = {}
              THEN ~where_id(verifier.keys, kid).some
              ELSE /\ where_id(verifier.keys, kid).some
                   /\ where_id(verifier.keys, kid).key
                        = published[LastIndexOf(published, kid)]
    /\ (Verified /\ token.kid # None) =>
          (outcome.err = "NoMatchingKey" <=> IndicesOf(published, token.kid) = {})

C12_Witness ==
    /\ Verified
    /\ Len(published) = 3
    /\ published[1].kid = KEY_ID /\ published[1].n = "n1"
    /\ published[2].kid = "67890"
    /\ published[3].kid = KEY_ID /\ published[3].n = "n2"
    /\ where_id(verifier.keys, KEY_ID).key.n = "n2"
    /\ token.kid = KEY_ID
    /\ outcome.err = "InvalidSignature"

(***************************************************************************)
(* C13. verify returns the error of the first gate that fails, in the      *)
(* order kid extraction, key lookup, client-id check, signature and claim  *)
(* validation: a token without a kid fails with the no-key-id error        *)
(* whatever the KeyStore holds; a token with an unknown kid fails with     *)
(* no-matching-key even when its cid mismatches; a validly signed token    *)
(* whose exp is not before now and whose cid differs from the configured   *)
(* client id fails with client-id-mismatch even when its iss or aud is     *)
(* wrong; and no other token fails with one of these three errors.         *)
(***************************************************************************)
CidMismatches ==
    verifier.cid # None /\ token.cid \in CidValues /\ token.cid # verifier.cid

C13_FirstFailingGate ==
    Verified =>
        /\ token.kid = None <=> outcome.err = "NoKeyId"
        /\ (token.kid # None /\ ~KidResolves) <=> outcome.err = "NoMatchingKey"
        /\ (SignatureValid /\ token.exp >= Now /\ CidMismatches) =>
               outcome.err = "ClientIdMismatch"
        /\ outcome.err = "ClientIdMismatch" => (KidResolves /\ CidMismatches)
        /\ outcome.err # None => Rejected

(***************************************************************************)
(* C14. A setter call cannot fail, sends no GET and changes only its own   *)
(* field: leeway(s) sets the leeway to s, audience(set) the audience set,  *)
(* client_id(c) the required client id, add_audience at most the audience  *)
(* set.  Setters of different fields commute, and of two calls of the same *)
(* setter the last value stays.                                            *)
(***************************************************************************)
SetterReturned ==
    /\ outcome'.op \in {"leeway", "audience", "client_id", "add_audience"}
    /\ published' = published

C14_SetterFrame ==
    /\ [][SetterReturned =>
            /\ outcome'.ok /\ outcome'.err = None
            /\ fetches' = fetches /\ nconstruct' = nconstruct
            /\ outcome'.op = "leeway" =>
                  verifier' = [verifier EXCEPT
                                  !.leeway = SomeLeeway(outcome'.entry)]
            /\ outcome'.op = "audience" =>
                  verifier' = [verifier EXCEPT !.aud = SomeAud(outcome'.entry)]
            /\ outcome'.op = "client_id" =>
                  verifier' = [verifier EXCEPT !.cid = outcome'.entry]
            /\ outcome'.op = "add_audience" =>
                  verifier' = [verifier EXCEPT !.aud = verifier'.aud]]_vars
    /\ [](HasVerifier =>
            /\ \A s \in LeewayValues, a \in SUBSET AudValues :
                  leeway(audience(verifier, a), s)
                    = audience(leeway(verifier, s), a)
            /\ \A s \in LeewayValues, c \in CidValues :
                  leeway(client_id(verifier, c), s)
                    = client_id(leeway(verifier, s), c)
            /\ \A a \in SUBSET AudValues, c \in CidValues :
                  audience(client_id(verifier, c), a)
                    = client_id(audience(verifier, a), c)
            /\ \A s1, s2 \in LeewayValues :
                  /\ leeway(leeway(verifier, s1), s2).leeway = SomeLeeway(s2)
                  /\ leeway(leeway(verifier, s1), s2) = leeway(verifier, s2)
            /\ \A a1, a2 \in SUBSET AudValues :
                  /\ audience(audience(verifier, a1), a2).aud = SomeAud(a2)
                  /\ audience(audience(verifier, a1), a2)
                       = audience(verifier, a2)
            /\ \A c1, c2 \in CidValues :
                  /\ client_id(client_id(verifier, c1), c2).cid = c2
                  /\ client_id(client_id(verifier, c1), c2)
                       = client_id(verifier, c2))

C14_Witness ==
    /\ outcome.op = "client_id"
    /\ outcome.entry = "cidB"
    /\ verifier.cid = "cidB"
    /\ verifier.leeway = SomeLeeway(30)
    /\ verifier.aud = SomeAud({"api://other"})
    /\ fetches = 1
    /\ DOMAIN verifier.keys = {KEY_ID}

(***************************************************************************)
(* C15. A Verifier as a constructor returns it has no client id, no        *)
(* audience set and no leeway override.  The leeway of the final           *)
(* validation in verify is 120 from construction until leeway is called,   *)
(* and from then on the last value passed to leeway, 0 included: without   *)
(* a client id, a token valid in everything else is accepted exactly when  *)
(* its exp is not before now minus that leeway, and fails with the         *)
(* token-expired error otherwise.                                          *)
(***************************************************************************)
LeewayCalled == outcome'.op = "leeway" /\ published' = published

C15_FreshDefaultsAndLeeway ==
    /\ [][(nconstruct' # nconstruct /\ outcome'.ok) =>
            /\ verifier'.cid = None
            /\ ~verifier'.aud.some
            /\ ~verifier'.leeway.some
            /\ FinalValidation(verifier').leeway = 120]_vars
    /\ [][LeewayCalled =>
            FinalValidation(verifier').leeway = outcome'.entry]_vars
    /\ [][(nconstruct' = nconstruct /\ ~LeewayCalled) =>
            FinalValidation(verifier').leeway
              = FinalValidation(verifier).leeway]_vars
    /\ [](HasVerifier => FinalValidation(verifier).leeway = EffectiveLeeway)
    /\ []((Verified /\ verifier.cid = None /\ PayloadDeserializes
             /\ SignatureValid /\ verifier.keys[token.kid].alg = "RS256"
             /\ IssuerMatches /\ AudienceSatisfied) =>
            IF token.exp >= Now - EffectiveLeeway
            THEN outcome.ok
            ELSE Rejected /\ outcome.err = "ExpiredSignature")

C15_Witness ==
    /\ Verified
    /\ verifier.leeway = SomeLeeway(0)
    /\ verifier.cid = None
    /\ SignatureValid
    /\ IssuerMatches
    /\ token.exp = Now - 30
    /\ outcome.err = "ExpiredSignature"

(***************************************************************************)
(* C16. Concurrent verify calls on one Verifier are independent: under     *)
(* every interleaving a call returns what verify returns for its token on  *)
(* that Verifier alone, and no step of a call changes the Verifier         *)
(* (issuer, KeyStore, configuration) or sends a GET.                       *)
(***************************************************************************)
C16_ConcurrentVerifyIndependent ==
    /\ [](\A c \in Callers :
            calls[c].pc = "done" =>
                calls[c].result = VerifyResult(verifier, calls[c].token))
    /\ [][calls' # calls =>
            verifier' = verifier /\ fetches' = fetches]_vars

C16_Witness ==
    /\ calls["c1"].pc = "done"
    /\ calls["c2"].pc = "done"
    /\ calls["c1"].overlapped
    /\ calls["c2"].overlapped
    /\ calls["c1"].result.ok
    /\ calls["c2"].result.err = "ExpiredSignature"
    /\ verifier.cid = "cidA"

(***************************************************************************)
(* C17. With a client_id configured, a token that carries no cid claim, or *)
(* a cid that is not a string, never verifies: verify returns an error and *)
(* no claims, also when its signature, iss, exp and aud are valid.         *)
(***************************************************************************)
C17_MissingCidNeverVerifies ==
    (Verified /\ verifier.cid # None /\ token.cid \in {None, NonStringCid}) =>
        Rejected

C17_Witness ==
    /\ Verified
    /\ verifier.cid = "cidA"
    /\ token.cid = None
    /\ SignatureValid
    /\ verifier.keys[token.kid].alg = "RS256"
    /\ IssuerMatches
    /\ AudienceSatisfied
    /\ token.exp >= Now
    /\ outcome.err = "Json"

====
